---- MODULE Spec2Model ----
(***************************************************************************)
(* A model of the GeoTagging app (chadryja/GeoTagging): the on-device      *)
(* media store of CameraService (saveImageWithMetadata, loadSavedImages,   *)
(* deleteImage over react-native-fs), the gallery that lists and deletes,  *)
(* and the capture flow of CameraView / App (initializeCamera, takePhoto,  *)
(* pickFromGallery, handleImageCaptured) with the location watch.          *)
(*                                                                         *)
(* Every `await` of the source is a point where other handlers run, so     *)
(* each async function is a small process whose pc names the native call   *)
(* it is waiting for; what runs between two awaits is one atomic step.     *)
(***************************************************************************)
EXTENDS Integers, Sequences, FiniteSets, TLC

(***************************************************************************)
(* Bounds of the model.                                                    *)
(***************************************************************************)
\* The millisecond clock (Date.now()) runs over 0..MaxTime.
MaxTime == 1
\* At most MaxSaves calls of saveImageWithMetadata in one behaviour.
MaxSaves == 2
\* The location platform delivers at most MaxFixes positions.
MaxFixes == 2
\* The location platform delivers at most MaxWatchErrors errors to a watch.
MaxWatchErrors == 1
\* A position is fresh while it is at most FreshnessWindow ticks old.
FreshnessWindow == 0

(***************************************************************************)
(* JavaScript values.  An optional field that is `undefined` holds         *)
(* Undefined; a defined optional number is wrapped by Num so that it can   *)
(* be compared with Undefined.                                             *)
(***************************************************************************)
Undefined == [undefined |-> TRUE]

Num(n) == [number |-> n]

(***************************************************************************)
(* Paths.  A path is a directory, a base name and the number of ".json"    *)
(* suffixes appended to the base name.  RNFS.DocumentDirectoryPath is the  *)
(* store's directory; photos handed over by the camera or the picker live  *)
(* in a cache directory outside it.                                        *)
(***************************************************************************)
DocumentDirectoryPath == "documents"

CacheDirectoryPath == "cache"

\* `geo_image_${new Date().toISOString().replace(/[:.]/g, '-')}.jpg` at
\* millisecond t: the name is the millisecond, and nothing else.
GenerateFilename(t) == [name |-> t, json |-> 0]

\* `${dir}/${filename}`
PathIn(dir, filename) == [dir |-> dir, name |-> filename.name, json |-> filename.json]

\* `${path}.json`
JsonOf(path) == [path EXCEPT !.json = @ + 1]

\* file.name.endsWith('.json')
EndsWithJson(path) == path.json >= 1

\* file.name.includes('.json.json')
IncludesJsonJson(path) == path.json >= 2

\* `file://${photo.path}`: the uri of photo p.
PhotoUri(p) == [dir |-> CacheDirectoryPath, name |-> p, json |-> 0]

(***************************************************************************)
(* The file system: a function from the paths that exist to their content. *)
(***************************************************************************)
Bytes(p) == [kind |-> "bytes", photo |-> p]

Exists(fs, path) == path \in DOMAIN fs

WriteTo(fs, path, content) ==
    [q \in (DOMAIN fs) \cup {path} |-> IF q = path THEN content ELSE fs[q]]

Unlink(fs, path) == [q \in (DOMAIN fs) \ {path} |-> fs[q]]

\* RNFS.copyFile(src, dst), when it succeeds.
CopyFile(fs, src, dst) == WriteTo(fs, dst, fs[src])

(***************************************************************************)
(* JSON.  stringify drops the keys whose value is undefined; parse throws  *)
(* on anything that is not JSON text (image bytes).                        *)
(***************************************************************************)
OptionalKeys == {"fileSize", "location"}

DefinedKeys(obj) ==
    {k \in DOMAIN obj : ~(k \in OptionalKeys /\ obj[k] = Undefined)}

JSONStringify(obj) ==
    [kind |-> "json", text |-> [k \in DefinedKeys(obj) |-> obj[k]]]

CanParse(content) == content.kind = "json"

\* What a writeFile of content leaves when it stops part way: a proper prefix
\* of the text, which is not JSON text.
CutShort(content) == [kind |-> "partial", text |-> content.text]

JSONParse(content) == content.text

\* Reading a key of a parsed object: undefined when the key is absent.
Field(obj, k) == IF k \in DOMAIN obj THEN obj[k] ELSE Undefined

(***************************************************************************)
(* ImageMetadata (src/types) and the metadata record saveImageWithMetadata *)
(* writes beside the image.                                                *)
(***************************************************************************)
\* Pixel size of photo p as the camera reports it.
PhotoWidth(p) == 100 * p

PhotoHeight(p) == 50 * p

ImageMetadata(p, size, ts, loc) ==
    [uri |-> PhotoUri(p), width |-> PhotoWidth(p), height |-> PhotoHeight(p),
     fileSize |-> size, timestamp |-> ts, location |-> loc]

\* A record whose timestamp is the time of the save.
MetadataOf_StampedAtSave(image, imagePath, t) ==
    [uri |-> image.uri, width |-> image.width, height |-> image.height,
     fileSize |-> image.fileSize, timestamp |-> t,
     location |-> image.location, path |-> imagePath, savedAt |-> t]

\* { ...imageMetadata, path: imagePath, savedAt: Date.now() }
MetadataOf(image, imagePath, t) ==
    [uri |-> image.uri, width |-> image.width, height |-> image.height,
     fileSize |-> image.fileSize, timestamp |-> image.timestamp,
     location |-> image.location, path |-> imagePath, savedAt |-> t]

(***************************************************************************)
(* loadSavedImages: the filter over readDir's entries and the final sort.  *)
(***************************************************************************)
\* A filter that keeps every name ending in .json.
IsMetadataFile_AnyJson(path) == EndsWithJson(path)

\* files.filter(file => file.name.endsWith('.json') && !file.name.includes('.json.json'))
IsMetadataFile(path) == EndsWithJson(path) /\ ~IncludesJsonJson(path)

\* A comparator with its operands swapped: oldest first.
CompareFn_Ascending(a, b) == a.timestamp - b.timestamp

\* (a, b) => b.timestamp - a.timestamp
CompareFn(a, b) == b.timestamp - a.timestamp

RECURSIVE InsertSorted(_, _)
InsertSorted(x, s) ==
    IF s = <<>> THEN <<x>>
    ELSE IF CompareFn(Head(s), x) <= 0
         THEN <<Head(s)>> \o InsertSorted(x, Tail(s))
         ELSE <<x>> \o s

\* Array.prototype.sort with CompareFn (stable).
RECURSIVE SortImages(_)
SortImages(s) ==
    IF s = <<>> THEN <<>>
    ELSE InsertSorted(s[Len(s)], SortImages(SubSeq(s, 1, Len(s) - 1)))

\* The entries of the documents directory, in some order readDir may give.
DirEntries(fs) == {q \in DOMAIN fs : q.dir = DocumentDirectoryPath}

RECURSIVE SeqOfSet(_)
SeqOfSet(S) ==
    IF S = {} THEN <<>>
    ELSE LET x == CHOOSE y \in S : TRUE IN <<x>> \o SeqOfSet(S \ {x})

Orderings(S) ==
    {o \in [1..Cardinality(S) -> S] : \A i, j \in 1..Cardinality(S) : i # j => o[i] # o[j]}

RECURSIVE ReadAll(_, _)
\* The for loop of loadSavedImages run to its end on file system fs.
ReadAll(fs, entries) ==
    IF entries = <<>> THEN <<>>
    ELSE LET f == Head(entries)
             rest == ReadAll(fs, Tail(entries))
         IN IF Exists(fs, f) /\ CanParse(fs[f]) THEN <<JSONParse(fs[f])>> \o rest ELSE rest

\* What one uninterrupted loadSavedImages returns on file system fs.
LoadSavedImagesOn(fs) ==
    SortImages(ReadAll(fs, SeqOfSet({q \in DirEntries(fs) : IsMetadataFile(q)})))

Occurrences(s, x) == Cardinality({i \in 1..Len(s) : s[i] = x})

(***************************************************************************)
(* State.                                                                  *)
(***************************************************************************)
VARIABLES
    now,            \* Date.now(), in milliseconds
    files,          \* the file system
    saves,          \* the calls of saveImageWithMetadata, in call order
    del,            \* the call of deleteImage in progress or last finished
    list,           \* the call of loadSavedImages in progress or last finished
    images,         \* ImageGallery's `images` state: the last list it was given
    kept,           \* history: records saved with no unlink since
    screen,         \* App's currentScreen
    app,            \* App: its mount effect's progress, appState.permissions
    osPerm,         \* the grants the operating system holds
    device,         \* whether useCameraDevices() has a back camera
    view,           \* CameraView's state (useState), and whether it is mounted
    init,           \* the run of initializeCamera in progress, if any
    shot,           \* the run of takePhoto in progress, if any
    pick,           \* the run of pickFromGallery in progress, if any
    watchId,        \* LocationService.watchId
    watches,        \* the platform's registered, uncleared position watches
    lastStop,       \* history: the call of stopWatchingLocation made by the
                    \* last unmount of CameraView, until it mounts again
    fixes,          \* how many positions the platform has delivered
    watchErrors,    \* history: how many errors the platform has delivered
                    \* to a watch
    permCalls,      \* history: the last call of PermissionService, and the
                    \* platform calls (check, request) it made
    lastWatch       \* history: the position the watch delivered last

storeVars == <<files, saves, del, list, images, kept>>

viewVars == <<screen, view, init, shot, pick, watchId, watches, lastStop, lastWatch>>

envVars == <<app, osPerm, device, fixes, watchErrors, permCalls>>

uiVars == <<viewVars, envVars>>

vars == <<now, storeVars, uiVars>>

Null == [null |-> TRUE]

(***************************************************************************)
(* LocationService.stopWatchingLocation, and the unmount of CameraView     *)
(* (the cleanup of its mount effect) when App leaves the camera screen.    *)
(***************************************************************************)
\* if (this.watchId !== null) { Geolocation.clearWatch(this.watchId); this.watchId = null }
ClearWatch(ws, id) == IF id = Null THEN ws ELSE {w \in ws : w.id # id.id}

\* A stop that hands the recorded id to clearWatch and keeps it recorded.
StopWatchingLocation_KeepsId(svc) ==
    IF svc.watchId = Null
    THEN [watchId |-> Null, watches |-> svc.watches, cleared |-> <<>>]
    ELSE [watchId |-> svc.watchId, watches |-> ClearWatch(svc.watches, svc.watchId),
          cleared |-> <<svc.watchId.id>>]

\* locationService.stopWatchingLocation() on a service holding svc.watchId
\* while the platform has svc.watches registered: what it leaves, and the ids
\* it handed to Geolocation.clearWatch.
StopWatchingLocation(svc) ==
    IF svc.watchId = Null
    THEN [watchId |-> Null, watches |-> svc.watches, cleared |-> <<>>]
    ELSE [watchId |-> Null, watches |-> ClearWatch(svc.watches, svc.watchId),
          cleared |-> <<svc.watchId.id>>]

\* LocationService and the platform's watches as they are.
Service == [watchId |-> watchId, watches |-> watches]

\* A run that has returned, or was never started.
NoRun == [pc |-> "idle", live |-> FALSE, device |-> FALSE, location |-> Null]

\* A run or a watch whose component has unmounted: its setState calls no
\* longer change anything.
Detached(r) == [r EXCEPT !.live = FALSE]

\* CameraView's state at mount, and (as nothing reads it) while unmounted.
NoView ==
    [mounted |-> FALSE, isLoading |-> TRUE, currentLocation |-> Null,
     hasPermission |-> FALSE, isLocationEnabled |-> FALSE, cameraInitialized |-> FALSE]

\* setCurrentScreen('gallery'), with i, s, p the runs of initializeCamera,
\* takePhoto and pickFromGallery as the caller leaves them: CameraView, if
\* shown, unmounts and its cleanup stops the watch recorded in watchId.  What
\* is still running runs on.
ShowGallery(i, s, p) ==
    /\ screen' = "gallery"
    /\ IF view.mounted
       THEN /\ view' = NoView
            /\ init' = Detached(i)
            /\ shot' = Detached(s)
            /\ pick' = Detached(p)
            /\ watchId' = StopWatchingLocation(Service).watchId
            /\ watches' = {Detached(w) : w \in StopWatchingLocation(Service).watches}
            /\ lastStop' = [before |-> Service, after |-> StopWatchingLocation(Service)]
            /\ lastWatch' = Null
       ELSE /\ init' = i
            /\ shot' = s
            /\ pick' = p
            /\ UNCHANGED <<view, watchId, watches, lastStop, lastWatch>>

(***************************************************************************)
(* saveImageWithMetadata(imageMetadata, filename), as App's                *)
(* handleImageCaptured calls and awaits it.                                *)
(***************************************************************************)
\* A save that writes the metadata record first and copies the bytes after.
SaveFsCalls_MetadataFirst == <<"writeFile", "copyFile">>

\* The native file-system calls of one save, in the order it awaits them.
SaveFsCalls == <<"copyFile", "writeFile">>

ImagePath(filename) == PathIn(DocumentDirectoryPath, filename)

\* A save that goes on only while the camera screen is shown.
Running_WhileShown(s) == s.status = "running" /\ view.mounted

Running(s) == s.status = "running"

PendingCall(s) == SaveFsCalls[s.step]

\* The save as it stands when call number k has been issued at time t.
Issue(s, k, t) ==
    IF k > Len(SaveFsCalls) THEN [s EXCEPT !.step = k, !.status = "done"]
    ELSE IF SaveFsCalls[k] = "writeFile"
         THEN [s EXCEPT !.step = k,
                        !.metadata = MetadataOf(s.image, ImagePath(s.filename), t)]
         ELSE [s EXCEPT !.step = k]

\* saveImageWithMetadata up to its first await.  calledAt and watched are
\* history: the millisecond of the call, and the position the watch had
\* delivered last when the image was handed over.
StartSave(image, filename, t, watched) ==
    Issue([status |-> "running", step |-> 1, image |-> image, filename |-> filename,
           metadata |-> Undefined, calledAt |-> t, watched |-> watched], 1, t)

\* The file system after the pending call of save s has succeeded.
FsAfter(fs, s) ==
    IF PendingCall(s) = "copyFile"
    THEN CopyFile(fs, s.image.uri, ImagePath(s.filename))
    ELSE WriteTo(fs, JsonOf(ImagePath(s.filename)), JSONStringify(s.metadata))

\* copyFile needs its source; writeFile needs nothing.
CanSucceed(fs, s) == PendingCall(s) = "copyFile" => Exists(fs, s.image.uri)

\* handleImageCaptured(image) up to its await of the save: the file name is
\* derived from the clock, and the save is started.
HandleImageCaptured(image) ==
    Append(saves, StartSave(image, GenerateFilename(now), now, lastWatch))

\* The record a list returns for what save s has written.
RecordOf(s) == JSONParse(JSONStringify(s.metadata))

\* The pending native call of save i resolves.  After the last one the save
\* returns and handleImageCaptured goes on: refresh, back to the gallery.
SaveFsDone(i) ==
    /\ Running(saves[i])
    /\ CanSucceed(files, saves[i])
    /\ files' = FsAfter(files, saves[i])
    /\ saves' = [saves EXCEPT ![i] = Issue(@, @.step + 1, now)]
    /\ IF saves'[i].status = "done"
       THEN /\ kept' = kept \cup {RecordOf(saves[i])}
            /\ ShowGallery(init, shot, pick)
       ELSE UNCHANGED <<kept, viewVars>>
    /\ UNCHANGED <<now, del, list, images, envVars>>

\* A rejection that leaves behind what the pending call was writing.
SaveFsFail_AfterWriting(i) ==
    /\ Running(saves[i])
    /\ CanSucceed(files, saves[i])
    /\ files' = FsAfter(files, saves[i])
    /\ saves' = [saves EXCEPT ![i].status = "failed"]
    /\ UNCHANGED <<now, del, list, images, kept, uiVars>>

\* The pending native call of save i rejects: the save throws 'Failed to save
\* image', and handleImageCaptured alerts 'Failed to save image'.
SaveFsFail(i) ==
    /\ Running(saves[i])
    /\ saves' = [saves EXCEPT ![i].status = "failed"]
    /\ UNCHANGED <<now, files, del, list, images, kept, uiVars>>

\* The pending writeFile of save i rejects having written part of the text
\* (the disk is full): the save fails as above.
SaveFsFailPartial(i) ==
    /\ Running(saves[i])
    /\ PendingCall(saves[i]) = "writeFile"
    /\ files' = WriteTo(files, JsonOf(ImagePath(saves[i].filename)),
                        CutShort(JSONStringify(saves[i].metadata)))
    /\ saves' = [saves EXCEPT ![i].status = "failed"]
    /\ UNCHANGED <<now, del, list, images, kept, uiVars>>

(***************************************************************************)
(* deleteImage(imagePath)                                                  *)
(***************************************************************************)
Idle(p) == p.pc \in {"idle", "done", "failed", "killed"}

\* The call itself: up to `await RNFS.exists(imagePath)`.  record, existed,
\* hadImage and hadMetadata are history: the listed record the caller meant,
\* and which artifacts of imagePath existed when the call was made.
StartDelete(path, record) ==
    [pc |-> "existsImage", imagePath |-> path, record |-> record,
     existed |-> Exists(files, path) \/ Exists(files, JsonOf(path)),
     hadImage |-> Exists(files, path), hadMetadata |-> Exists(files, JsonOf(path))]

\* A direct call of the service on the path of a stored image.
DeleteCall(path) ==
    /\ Idle(del)
    /\ del' = StartDelete(path, Null)
    /\ UNCHANGED <<now, files, saves, list, images, kept, uiVars>>

\* ImageGallery.deleteImage / App.handleDeleteImage on the k-th record shown:
\* cameraService.deleteImage(image.uri).
DeleteListed(k) ==
    /\ Idle(del)
    /\ k \in 1..Len(images)
    /\ del' = StartDelete(images[k].uri, images[k])
    /\ UNCHANGED <<now, files, saves, list, images, kept, uiVars>>

\* A delete that unlinks the image without looking at what exists() said.
AfterExistsImage_Unguarded(found) == "unlinkImage"

\* `if (await RNFS.exists(imagePath))`: where deleteImage goes on when
\* exists() has answered found.
AfterExistsImage(found) == IF found THEN "unlinkImage" ELSE "existsMetadata"

\* `if (await RNFS.exists(metadataPath))`, likewise.
AfterExistsMetadata(found) == IF found THEN "unlinkMetadata" ELSE "done"

\* if (await RNFS.exists(imagePath)) await RNFS.unlink(imagePath)
DeleteExistsImage ==
    /\ del.pc = "existsImage"
    /\ del' = [del EXCEPT !.pc = AfterExistsImage(Exists(files, del.imagePath))]
    /\ UNCHANGED <<now, files, saves, list, images, kept, uiVars>>

DeleteUnlinkImage ==
    /\ del.pc = "unlinkImage"
    /\ Exists(files, del.imagePath)
    /\ files' = Unlink(files, del.imagePath)
    /\ del' = [del EXCEPT !.pc = "existsMetadata"]
    /\ kept' = {}
    /\ UNCHANGED <<now, saves, list, images, uiVars>>

\* if (await RNFS.exists(metadataPath)) await RNFS.unlink(metadataPath)
DeleteExistsMetadata ==
    /\ del.pc = "existsMetadata"
    /\ del' = [del EXCEPT !.pc = AfterExistsMetadata(Exists(files, JsonOf(del.imagePath)))]
    /\ UNCHANGED <<now, files, saves, list, images, kept, uiVars>>

DeleteUnlinkMetadata ==
    /\ del.pc = "unlinkMetadata"
    /\ Exists(files, JsonOf(del.imagePath))
    /\ files' = Unlink(files, JsonOf(del.imagePath))
    /\ del' = [del EXCEPT !.pc = "done"]
    /\ kept' = {}
    /\ UNCHANGED <<now, saves, list, images, uiVars>>

\* An unlink rejects (the file is gone by now, or an I/O error):
\* catch, throw 'Failed to delete image'.
DeleteUnlinkFail ==
    /\ del.pc \in {"unlinkImage", "unlinkMetadata"}
    /\ del' = [del EXCEPT !.pc = "failed"]
    /\ UNCHANGED <<now, files, saves, list, images, kept, uiVars>>

(***************************************************************************)
(* loadSavedImages(), called by ImageGallery.loadImages                    *)
(***************************************************************************)
\* A save or a delete is between two of its file-system calls.
StoreCallInFlight == ~Idle(del) \/ \E i \in 1..Len(saves) : Running(saves[i])

\* What follows the for loop once every file has been read: sort, return.
\* absent and overlapped are history: whether, when the call returned, the
\* image of some returned record was not in the store, and whether a save or
\* a delete was then in flight.
Finish(l) ==
    IF l.next > Len(l.imageFiles)
    THEN [l EXCEPT !.pc = "done", !.result = SortImages(l.read),
                   !.absent = \E k \in 1..Len(l.read) : ~Exists(files, l.read[k].path),
                   !.overlapped = StoreCallInFlight]
    ELSE l

\* loadImages' setImages(savedImages), once loadSavedImages has returned.
SetImages(l) == IF l.pc = "done" THEN l.result ELSE images

ListCall ==
    /\ Idle(list)
    /\ list' = [pc |-> "readDir", imageFiles |-> <<>>, next |-> 1, read |-> <<>>,
                result |-> <<>>, absent |-> FALSE, overlapped |-> FALSE]
    /\ UNCHANGED <<now, files, saves, del, images, kept, uiVars>>

\* readDir resolves with the directory's entries in some order; the filter
\* keeps the metadata files.
ListReadDir(order) ==
    /\ list.pc = "readDir"
    /\ list' = Finish([list EXCEPT !.pc = "readFile", !.imageFiles = order])
    /\ images' = SetImages(list')
    /\ UNCHANGED <<now, files, saves, del, kept, uiVars>>

\* A loop whose inner catch gives the call up.
AfterRead_Abort(l, got) ==
    IF got = <<>> THEN [l EXCEPT !.pc = "failed"]
    ELSE Finish([l EXCEPT !.next = @ + 1, !.read = @ \o got])

\* One turn of the for loop of list l: got holds the record that was parsed
\* and pushed, or nothing when the inner catch caught; then the next file.
AfterRead(l, got) == Finish([l EXCEPT !.next = @ + 1, !.read = @ \o got])

\* readFile of the next metadata file resolves; JSON.parse; images.push.
\* A file that is gone or does not parse is skipped (the inner catch).
ListReadFile ==
    /\ list.pc = "readFile"
    /\ LET f == list.imageFiles[list.next]
           got == IF Exists(files, f) /\ CanParse(files[f])
                  THEN <<JSONParse(files[f])>> ELSE <<>>
       IN list' = AfterRead(list, got)
    /\ images' = SetImages(list')
    /\ UNCHANGED <<now, files, saves, del, kept, uiVars>>

\* readFile rejects with an I/O error: console.warn, next file.
ListReadFileFail ==
    /\ list.pc = "readFile"
    /\ list' = AfterRead(list, <<>>)
    /\ images' = SetImages(list')
    /\ UNCHANGED <<now, files, saves, del, kept, uiVars>>

(***************************************************************************)
(* The environment: the clock, and the death of the app's process.         *)
(***************************************************************************)
Tick ==
    /\ now < MaxTime
    /\ now' = now + 1
    /\ UNCHANGED <<storeVars, uiVars>>

InFlight ==
    \/ ~Idle(del)
    \/ ~Idle(list)
    \/ \E i \in 1..Len(saves) : Running(saves[i])

\* The process dies between two file-system steps: every call in progress is
\* abandoned, the files stay as they are, and the restarted app shows nothing
\* until it lists again.
Crash ==
    /\ InFlight
    /\ saves' = [i \in 1..Len(saves) |->
                    IF Running(saves[i]) THEN [saves[i] EXCEPT !.status = "killed"]
                    ELSE saves[i]]
    /\ del' = IF Idle(del) THEN del ELSE [del EXCEPT !.pc = "killed"]
    /\ list' = IF Idle(list) THEN list ELSE [list EXCEPT !.pc = "killed"]
    /\ images' = <<>>
    /\ UNCHANGED <<now, files, kept, uiVars>>

(***************************************************************************)
(* The state after construction: App shows the gallery, nothing is stored. *)
(***************************************************************************)
\* The grant of a capability as the operating system holds it.
PermissionStates == {"granted", "denied", "blocked"}

NoCalls == [op |-> "none", by |-> "none", at |-> Null, calls |-> <<>>, outcomes |-> Null, result |-> Null]

NoStop == [before |-> Null, after |-> Null]

NoDelete ==
    [pc |-> "idle", imagePath |-> Null, record |-> Null, existed |-> FALSE,
     hadImage |-> FALSE, hadMetadata |-> FALSE]

NoList == [pc |-> "idle", imageFiles |-> <<>>, next |-> 1, read |-> <<>>, result |-> <<>>,
           absent |-> FALSE, overlapped |-> FALSE]

\* The state after construction, whether or not useCameraDevices() has a
\* back camera yet.
InitAnyDevice ==
    /\ now = 0
    /\ files = << >>
    /\ saves = <<>>
    /\ del = NoDelete
    /\ list = NoList
    /\ images = <<>>
    /\ kept = {}
    /\ screen = "gallery"
    /\ app = [pc |-> "checkPermissions", permissions |-> [camera |-> FALSE, location |-> FALSE]]
    /\ osPerm \in [camera : PermissionStates, location : PermissionStates]
    /\ permCalls = NoCalls
    /\ device \in BOOLEAN
    /\ view = NoView
    /\ init = NoRun
    /\ shot = NoRun
    /\ pick = NoRun
    /\ watchId = Null
    /\ watches = {}
    /\ lastStop = NoStop
    /\ watchErrors = 0
    /\ fixes = 0
    /\ lastWatch = Null

\* On a device whose back camera is known from the first render on.
Init == InitAnyDevice /\ device = TRUE

\* The same with both grants already given.
InitGranted == Init /\ osPerm = [camera |-> "granted", location |-> "granted"]

(***************************************************************************)
(* The store on its own.  The camera screen is reduced to its outcome: a    *)
(* new photo file in the cache directory, handed to handleImageCaptured     *)
(* with the time of capture and no position.                                *)
(***************************************************************************)
NextPhoto == Len(saves) + 1

Captured(loc) ==
    /\ Len(saves) < MaxSaves
    /\ files' = WriteTo(files, PhotoUri(NextPhoto), Bytes(NextPhoto))
    /\ saves' = HandleImageCaptured(ImageMetadata(NextPhoto, Undefined, now, loc))
    /\ UNCHANGED <<now, del, list, images, kept, uiVars>>

StoredImagePaths == {ImagePath(GenerateFilename(t)) : t \in 0..MaxTime}

SaveSteps ==
    \/ \E i \in 1..Len(saves) : SaveFsDone(i)
    \/ \E i \in 1..Len(saves) : SaveFsFail(i)

DeleteSteps ==
    \/ DeleteExistsImage
    \/ DeleteUnlinkImage
    \/ DeleteExistsMetadata
    \/ DeleteUnlinkMetadata
    \/ DeleteUnlinkFail

ListSteps ==
    \/ ListCall
    \/ \E order \in Orderings({q \in DirEntries(files) : IsMetadataFile(q)}) :
          ListReadDir(order)
    \/ ListReadFile
    \/ ListReadFileFail

\* Saves only, with crashes: what saves do to an empty store.
NextSave ==
    \/ Captured(Undefined)
    \/ SaveSteps
    \/ Crash
    \/ Tick

SpecSave == InitGranted /\ [][NextSave]_vars

\* Saves and lists.
NextList ==
    \/ Captured(Undefined)
    \/ SaveSteps
    \/ ListSteps
    \/ Tick

SpecList == InitGranted /\ [][NextList]_vars

\* Saves and lists on a disk that may fill up during a write.
NextListDamaged ==
    \/ Captured(Undefined)
    \/ SaveSteps
    \/ \E i \in 1..Len(saves) : SaveFsFailPartial(i)
    \/ ListSteps
    \/ Tick

SpecListDamaged == InitGranted /\ [][NextListDamaged]_vars

\* The names a documents directory may hold: those the app gives its images,
\* with .json appended none, one or two times.
DirectoryNames ==
    {PathIn(DocumentDirectoryPath, [name |-> t, json |-> j]) : t \in 0..MaxTime, j \in 0..2}

\* What a file of that name may hold: image bytes under an image name; under
\* a name ending in .json the record of the image of that name, whole or cut
\* short.
ContentsOf(q) ==
    IF q.json = 0 THEN {Bytes(q.name + 1)}
    ELSE LET imagePath == [q EXCEPT !.json = 0]
             text == JSONStringify(MetadataOf(
                         ImageMetadata(q.name + 1, Undefined, q.name, Undefined),
                         imagePath, q.name))
         IN {text, CutShort(text)}

RECURSIVE StoresOver(_)
\* Every file system that holds some of the names of paths.
StoresOver(paths) ==
    IF paths = {} THEN {<< >>}
    ELSE LET q == CHOOSE x \in paths : TRUE
             rest == StoresOver(paths \ {q})
         IN rest \cup {WriteTo(fs, q, c) : fs \in rest, c \in ContentsOf(q)}

\* The gallery opened on a documents directory found in any such state.
InitEnumerate ==
    /\ now = 0
    /\ files \in StoresOver(DirectoryNames)
    /\ saves = <<>>
    /\ del = NoDelete
    /\ list = NoList
    /\ images = <<>>
    /\ kept = {}
    /\ screen = "gallery"
    /\ app = [pc |-> "checkPermissions", permissions |-> [camera |-> FALSE, location |-> FALSE]]
    /\ osPerm = [camera |-> "granted", location |-> "granted"]
    /\ permCalls = NoCalls
    /\ device = TRUE
    /\ view = NoView
    /\ init = NoRun
    /\ shot = NoRun
    /\ pick = NoRun
    /\ watchId = Null
    /\ watches = {}
    /\ lastStop = NoStop
    /\ watchErrors = 0
    /\ fixes = 0
    /\ lastWatch = Null

\* Lists of a directory nothing else writes to, every readFile of a file that
\* exists resolving.
NextEnumerate ==
    \/ ListCall
    \/ \E order \in Orderings({q \in DirEntries(files) : IsMetadataFile(q)}) :
          ListReadDir(order)
    \/ ListReadFile

SpecEnumerate == InitEnumerate /\ [][NextEnumerate]_vars

\* Saves and deletes by a direct caller of the service, with crashes.
NextStore ==
    \/ Captured(Undefined)
    \/ SaveSteps
    \/ \E path \in StoredImagePaths : DeleteCall(path)
    \/ DeleteSteps
    \/ Crash
    \/ Tick

SpecStore == InitGranted /\ [][NextStore]_vars

\* A caller that awaits each call of the service before it makes the next:
\* saves while no delete is in flight, deletes once every save has settled;
\* the process may die in between.
NextStoreSerial ==
    \/ Idle(del) /\ Captured(Undefined)
    \/ Idle(del) /\ SaveSteps
    \/ \E path \in StoredImagePaths :
           /\ \A i \in 1..Len(saves) : ~Running(saves[i])
           /\ DeleteCall(path)
    \/ DeleteSteps
    \/ Crash
    \/ Tick

SpecStoreSerial == InitGranted /\ [][NextStoreSerial]_vars

\* The gallery over the store: saves, lists, and the deletes the gallery and
\* the detail view make.
NextGallery ==
    \/ Captured(Undefined)
    \/ SaveSteps
    \/ ListSteps
    \/ \E k \in 1..MaxSaves : DeleteListed(k)
    \/ \E k \in 1..Len(images) : DeleteCall(images[k].path)
    \/ DeleteSteps
    \/ Tick

SpecGallery == InitGranted /\ [][NextGallery]_vars

(***************************************************************************)
(* App: the mount effect, and the camera button of the gallery screen.     *)
(***************************************************************************)
\* check(permission) resolves with the state the platform holds, or rejects.
CheckOutcomes(g) == {g, "error"}

\* A check that takes everything but a denial for a grant.
CheckCameraPermission_UnlessDenied(result) == result # "denied"

\* checkCameraPermission(): `result === RESULTS.GRANTED`; a rejected check
\* is caught and gives false.
CheckCameraPermission(result) == result = "granted"

\* checkLocationPermission(): the same for the location permission.
CheckLocationPermission(result) == result = "granted"

\* PermissionService.arePermissionsGranted on the platform's answers cam and
\* loc: check() of both, no prompt.
ArePermissionsGranted(cam, loc) ==
    [camera |-> CheckCameraPermission(cam), location |-> CheckLocationPermission(loc)]

\* The platform calls arePermissionsGranted makes.
ArePermissionsGrantedCalls ==
    <<[call |-> "check", permission |-> "camera"],
      [call |-> "check", permission |-> "location"]>>

\* What the call of arePermissionsGranted by component `by` leaves in the
\* history.
CheckedPermissions(by, cam, loc) ==
    [op |-> "arePermissionsGranted", by |-> by, at |-> osPerm, calls |-> ArePermissionsGrantedCalls,
     outcomes |-> [camera |-> cam, location |-> loc],
     result |-> ArePermissionsGranted(cam, loc)]

\* What request() may answer for a capability in state g: a prompt is shown
\* only for one that is denied, and the user grants it, denies it, or denies
\* it for good; or the request rejects.
RequestOutcomes(g) ==
    (IF g = "denied" THEN {"granted", "denied", "blocked"} ELSE {g}) \cup {"error"}

\* The state of a capability that was g once request() has answered.
AfterRequest(g, result) == IF result = "error" THEN g ELSE result

\* requestCameraPermission(): true on RESULTS.GRANTED; DENIED and BLOCKED
\* show an alert and give false; a rejected request is caught and gives false.
RequestCameraPermission(result) == result = "granted"

\* requestLocationPermission(): the same for the location permission.
RequestLocationPermission(result) == result = "granted"

\* A checkAllPermissions that stops at the first permission not granted.
CheckAllPermissions_StopAtFirst(cam, loc) ==
    [camera |-> RequestCameraPermission(cam),
     location |-> RequestCameraPermission(cam) /\ RequestLocationPermission(loc)]

\* PermissionService.checkAllPermissions on the platform's answers cam and
\* loc.  (The photo-library request that follows on iOS has its answer
\* dropped.)
CheckAllPermissions(cam, loc) ==
    [camera |-> RequestCameraPermission(cam), location |-> RequestLocationPermission(loc)]

\* The platform calls checkAllPermissions makes when the camera request has
\* answered cam: the location request follows whatever cam is.
CheckAllPermissionsCalls(cam) ==
    <<[call |-> "request", permission |-> "camera"],
      [call |-> "request", permission |-> "location"]>>

\* What the call of checkAllPermissions by component `by` leaves in the
\* history.
RequestedPermissions(by, cam, loc) ==
    [op |-> "checkAllPermissions", by |-> by, at |-> osPerm, calls |-> CheckAllPermissionsCalls(cam),
     outcomes |-> [camera |-> cam, location |-> loc],
     result |-> CheckAllPermissions(cam, loc)]

\* useEffect(() => { checkPermissions() }, []): once, when App mounts.
AppCheckPermissions(cam, loc) ==
    /\ app.pc = "checkPermissions"
    /\ cam \in CheckOutcomes(osPerm.camera)
    /\ loc \in CheckOutcomes(osPerm.location)
    /\ app' = [pc |-> "ready", permissions |-> ArePermissionsGranted(cam, loc)]
    /\ permCalls' = CheckedPermissions("App", cam, loc)
    /\ UNCHANGED <<now, storeVars, viewVars, osPerm, device, watchErrors, fixes>>

\* The user grants capability c in the system's Settings while the app is
\* running; the app is not told, and checkPermissions is not run again.
GrantInSettings(c) ==
    /\ app.pc = "ready"
    /\ osPerm[c] # "granted"
    /\ osPerm' = [osPerm EXCEPT ![c] = "granted"]
    /\ UNCHANGED <<now, storeVars, viewVars, app, device, watchErrors, fixes, permCalls>>

\* A run starts in the mounted view.
Started(pcName) == [pc |-> pcName, live |-> TRUE, device |-> device, location |-> view.currentLocation]

\* The camera button (disabled without appState.permissions.camera):
\* CameraView mounts with fresh state and its mount effect calls
\* initializeCamera, which runs up to `await arePermissionsGranted()`.
\* The screen is opened while the behaviour has captures left.
OpenCamera ==
    /\ screen = "gallery"
    /\ app.permissions.camera
    /\ Len(saves) < MaxSaves
    /\ Idle(init)
    /\ screen' = "camera"
    /\ view' = [NoView EXCEPT !.mounted = TRUE]
    /\ init' = [Started("arePermissionsGranted") EXCEPT !.location = Null]
    /\ lastWatch' = Null
    /\ lastStop' = NoStop
    /\ UNCHANGED <<now, storeVars, shot, pick, watchId, watches, envVars>>

\* The camera button of the App whose button is never disabled
\* (`disabled={false}`, permissions are left to the camera view).
OpenCameraUngated ==
    /\ screen = "gallery"
    /\ app.pc = "ready"
    /\ Len(saves) < MaxSaves
    /\ Idle(init)
    /\ screen' = "camera"
    /\ view' = [NoView EXCEPT !.mounted = TRUE]
    /\ init' = [Started("arePermissionsGranted") EXCEPT !.location = Null]
    /\ lastWatch' = Null
    /\ lastStop' = NoStop
    /\ UNCHANGED <<now, storeVars, shot, pick, watchId, watches, envVars>>

\* The Request Permissions button of that App: requestPermissions() puts the
\* answer of checkAllPermissions() into appState.permissions.
RequestPermissions(cam, loc) ==
    /\ screen = "gallery"
    /\ app.pc = "ready"
    /\ cam \in RequestOutcomes(osPerm.camera)
    /\ loc \in RequestOutcomes(osPerm.location)
    /\ osPerm' = [camera |-> AfterRequest(osPerm.camera, cam),
                  location |-> AfterRequest(osPerm.location, loc)]
    /\ permCalls' = RequestedPermissions("App", cam, loc)
    /\ app' = [app EXCEPT !.permissions = CheckAllPermissions(cam, loc)]
    /\ UNCHANGED <<now, storeVars, viewVars, device, watchErrors, fixes>>

\* A view that renders its controls as soon as it is mounted.
ControlsShown_BeforeInit == view.mounted

\* Whether CameraView renders its camera and controls: not the loading view,
\* not one of the two error views.
ControlsShown ==
    /\ view.mounted
    /\ ~view.isLoading
    /\ view.hasPermission
    /\ device
    /\ view.cameraInitialized

\* The Close button, shown by every view but the loading view: onClose().
CloseCamera ==
    /\ view.mounted
    /\ ~view.isLoading
    /\ ShowGallery(init, shot, pick)
    /\ UNCHANGED <<now, storeVars, envVars>>

(***************************************************************************)
(* CameraView.initializeCamera                                             *)
(***************************************************************************)
\* A setState of run r: it changes the view only while r's component lives.
SetState(r, v) == IF r.live THEN v ELSE view

\* The effect on [device, hasPermission]:
\* if (device && hasPermission) setCameraInitialized(true).
DeviceEffect(v) ==
    IF device /\ v.hasPermission THEN [v EXCEPT !.cameraInitialized = TRUE] ELSE v

\* setCameraInitialized(true), and the finally's setIsLoading(false).
Initialized(v) == [v EXCEPT !.cameraInitialized = TRUE, !.isLoading = FALSE]

\* arePermissionsGranted() resolves on the platform's answers cam and loc:
\* with both grants setHasPermission(true) and the one-second wait begins;
\* without, checkAllPermissions() is called.
InitPermissionsChecked(cam, loc) ==
    /\ init.pc = "arePermissionsGranted"
    /\ cam \in CheckOutcomes(osPerm.camera)
    /\ loc \in CheckOutcomes(osPerm.location)
    /\ permCalls' = CheckedPermissions("CameraView", cam, loc)
    /\ IF ArePermissionsGranted(cam, loc).camera /\ ArePermissionsGranted(cam, loc).location
       THEN /\ view' = SetState(init, DeviceEffect([view EXCEPT !.hasPermission = TRUE]))
            /\ init' = [init EXCEPT !.pc = "wait"]
       ELSE /\ init' = [init EXCEPT !.pc = "checkAllPermissions"]
            /\ view' = view
    /\ UNCHANGED <<now, storeVars, screen, shot, pick, watchId, watches, lastStop, lastWatch,
                   app, osPerm, device, watchErrors, fixes>>

\* checkAllPermissions() resolves on the platform's answers cam and loc.
\* Without both grants: alert, onClose(), return.
InitPermissionsRequested(cam, loc) ==
    /\ init.pc = "checkAllPermissions"
    /\ cam \in RequestOutcomes(osPerm.camera)
    /\ loc \in RequestOutcomes(osPerm.location)
    /\ osPerm' = [camera |-> AfterRequest(osPerm.camera, cam),
                  location |-> AfterRequest(osPerm.location, loc)]
    /\ permCalls' = RequestedPermissions("CameraView", cam, loc)
    /\ IF CheckAllPermissions(cam, loc).camera /\ CheckAllPermissions(cam, loc).location
       THEN /\ view' = SetState(init, DeviceEffect([view EXCEPT !.hasPermission = TRUE]))
            /\ init' = [init EXCEPT !.pc = "wait"]
            /\ UNCHANGED <<screen, shot, pick, watchId, watches, lastStop, lastWatch>>
       ELSE ShowGallery(NoRun, shot, pick)
    /\ UNCHANGED <<now, storeVars, app, device, watchErrors, fixes>>

\* useCameraDevices() delivers the back camera: CameraView, if shown, renders
\* again with it, and the effect on [device, hasPermission] runs.  A run of
\* initializeCamera in progress keeps the `device` of the render that called
\* it.
DeviceFound ==
    /\ ~device
    /\ device' = TRUE
    /\ view' = IF view.mounted /\ view.hasPermission
               THEN [view EXCEPT !.cameraInitialized = TRUE] ELSE view
    /\ UNCHANGED <<now, storeVars, screen, init, shot, pick, watchId, watches, lastStop,
                   lastWatch, app, osPerm, watchErrors, fixes, permCalls>>

\* The one-second wait is over.  `device` is the one of the render that
\* called initializeCamera.  Without it: alert, onClose(), return.
InitWaited ==
    /\ init.pc = "wait"
    /\ IF init.device
       THEN /\ init' = [init EXCEPT !.pc = "isLocationEnabled"]
            /\ UNCHANGED <<screen, view, shot, pick, watchId, watches, lastStop, lastWatch>>
       ELSE ShowGallery(NoRun, shot, pick)
    /\ UNCHANGED <<now, storeVars, envVars>>

\* isLocationEnabled() resolves with b.  With false the initialization ends
\* here, with no position and no watch.
InitLocationEnabled(b) ==
    /\ init.pc = "isLocationEnabled"
    /\ IF b
       THEN /\ view' = SetState(init, [view EXCEPT !.isLocationEnabled = TRUE])
            /\ init' = [init EXCEPT !.pc = "getCurrentLocation"]
       ELSE /\ view' = SetState(init, Initialized([view EXCEPT !.isLocationEnabled = FALSE]))
            /\ init' = NoRun
    /\ UNCHANGED <<now, storeVars, screen, shot, pick, watchId, watches, lastStop, lastWatch, envVars>>

\* LocationData of the k-th position the platform delivers, at millisecond t.
\* coords.altitude and coords.accuracy are null on this device, so both
\* optional fields are undefined and JSON leaves them out.
LocationData(k, t) == [latitude |-> k, longitude |-> 10 * k, timestamp |-> t]

\* Saves and lists of images that carry a position or none.
NextRoundTrip ==
    \/ \E loc \in {Undefined, LocationData(1, 0)} : Captured(loc)
    \/ SaveSteps
    \/ ListSteps
    \/ Tick

SpecRoundTrip == InitGranted /\ [][NextRoundTrip]_vars

\* Geolocation.watchPosition returns an id no registered watch has.
NewWatchId == CHOOSE n \in 1..(Cardinality(watches) + 1) : \A w \in watches : w.id # n

\* locationService.watchLocation(...): the platform registers a watch whose
\* callback belongs to the component of run r, and the service records its
\* id over whatever id it held.
WatchLocation(r) ==
    /\ watches' = watches \cup {[id |-> NewWatchId, live |-> r.live]}
    /\ watchId' = [id |-> NewWatchId]

\* getCurrentLocation() resolves: setCurrentLocation(location); then the
\* watch is started and the initialization completes.
InitLocationResolved ==
    /\ init.pc = "getCurrentLocation"
    /\ fixes < MaxFixes
    /\ fixes' = fixes + 1
    /\ view' = SetState(init, Initialized([view EXCEPT
                   !.currentLocation = LocationData(fixes + 1, now)]))
    /\ WatchLocation(init)
    /\ init' = NoRun
    /\ UNCHANGED <<now, storeVars, screen, shot, pick, lastWatch, lastStop,
                   app, osPerm, device, watchErrors, permCalls>>

\* getCurrentLocation() rejects (error or 15 s timeout): a warning, no
\* position; the watch is started all the same.
InitLocationRejected ==
    /\ init.pc = "getCurrentLocation"
    /\ view' = SetState(init, Initialized(view))
    /\ WatchLocation(init)
    /\ init' = NoRun
    /\ UNCHANGED <<now, storeVars, screen, shot, pick, lastWatch, lastStop, envVars>>

\* The platform delivers a position to watch w: setCurrentLocation(location)
\* in the component that registered it.
WatchUpdate(w) ==
    /\ w \in watches
    /\ fixes < MaxFixes
    /\ fixes' = fixes + 1
    /\ IF w.live
       THEN /\ view' = [view EXCEPT !.currentLocation = LocationData(fixes + 1, now)]
            /\ lastWatch' = LocationData(fixes + 1, now)
       ELSE UNCHANGED <<view, lastWatch>>
    /\ UNCHANGED <<now, storeVars, screen, init, shot, pick, watchId, watches, lastStop,
                   app, osPerm, device, watchErrors, permCalls>>

\* An error callback that takes the camera for uninitialized.
OnWatchError_HidesControls(v) == [v EXCEPT !.cameraInitialized = FALSE]

\* The error callback initializeCamera hands to watchLocation, on
\* CameraView's state v: console.warn, no setState.
OnWatchError(v) == v

\* The platform delivers an error to watch w: LocationService wraps it and
\* calls onError, the callback of the component that registered the watch.
WatchError(w) ==
    /\ w \in watches
    /\ watchErrors < MaxWatchErrors
    /\ watchErrors' = watchErrors + 1
    /\ view' = IF w.live THEN OnWatchError(view) ELSE view
    /\ UNCHANGED <<now, storeVars, screen, init, shot, pick, watchId, watches, lastStop,
                   lastWatch, app, osPerm, device, fixes, permCalls>>

(***************************************************************************)
(* CameraView.takePhoto and pickFromGallery                                *)
(***************************************************************************)
\* A tagging that stores the null it holds.
OrUndefined_KeepNull(loc) == loc

\* `currentLocation || undefined`
OrUndefined(loc) == IF loc = Null THEN Undefined ELSE loc

\* The shutter button: takePhoto up to `await camera.current.takePhoto()`.
\* The run keeps the currentLocation of the render it was called from.
PressShutter ==
    /\ ControlsShown
    /\ Idle(shot)
    /\ shot' = Started("takePhoto")
    /\ view' = [view EXCEPT !.isLoading = TRUE]
    /\ UNCHANGED <<now, storeVars, screen, init, pick, watchId, watches, lastStop, lastWatch, envVars>>

\* The camera delivers the photo: the metadata is built, onImageCaptured is
\* called and not awaited, and the finally shows the controls again.
ShutterResolved ==
    /\ shot.pc = "takePhoto"
    /\ Len(saves) < MaxSaves
    /\ files' = WriteTo(files, PhotoUri(NextPhoto), Bytes(NextPhoto))
    /\ saves' = HandleImageCaptured(
                    ImageMetadata(NextPhoto, Undefined, now, OrUndefined(shot.location)))
    /\ view' = SetState(shot, [view EXCEPT !.isLoading = FALSE])
    /\ shot' = NoRun
    /\ UNCHANGED <<now, del, list, images, kept, screen, init, pick, watchId, watches, lastStop,
                   lastWatch, envVars>>

\* The camera fails: alert 'Failed to capture photo', controls shown again.
ShutterRejected ==
    /\ shot.pc = "takePhoto"
    /\ view' = SetState(shot, [view EXCEPT !.isLoading = FALSE])
    /\ shot' = NoRun
    /\ UNCHANGED <<now, storeVars, screen, init, pick, watchId, watches, lastStop, lastWatch, envVars>>

\* cameraService.addLocationToImage(imageMetadata, location)
AddLocationToImage(image, location) == [image EXCEPT !.location = location]

\* The Gallery button: pickFromGallery up to its await of the picker.
PressGallery ==
    /\ ControlsShown
    /\ Idle(pick)
    /\ pick' = Started("pickImageFromGallery")
    /\ view' = [view EXCEPT !.isLoading = TRUE]
    /\ UNCHANGED <<now, storeVars, screen, init, shot, watchId, watches, lastStop, lastWatch, envVars>>

\* The picker returns an asset (its fileSize is known): it is tagged with the
\* currentLocation of the run, if any, and handed to onImageCaptured.
PickResolved ==
    /\ pick.pc = "pickImageFromGallery"
    /\ Len(saves) < MaxSaves
    /\ files' = WriteTo(files, PhotoUri(NextPhoto), Bytes(NextPhoto))
    /\ LET imageMetadata == ImageMetadata(NextPhoto, Num(NextPhoto), now, Undefined)
       IN  saves' = HandleImageCaptured(
                        IF pick.location # Null
                        THEN AddLocationToImage(imageMetadata, pick.location)
                        ELSE imageMetadata)
    /\ view' = SetState(pick, [view EXCEPT !.isLoading = FALSE])
    /\ pick' = NoRun
    /\ UNCHANGED <<now, del, list, images, kept, screen, init, shot, watchId, watches, lastStop,
                   lastWatch, envVars>>

\* The picker is cancelled or fails: alert 'Failed to pick image from gallery'.
PickRejected ==
    /\ pick.pc = "pickImageFromGallery"
    /\ view' = SetState(pick, [view EXCEPT !.isLoading = FALSE])
    /\ pick' = NoRun
    /\ UNCHANGED <<now, storeVars, screen, init, shot, watchId, watches, lastStop, lastWatch, envVars>>

(***************************************************************************)
(* The capture flow: the app from its start, the camera screen, the        *)
(* location watch, and the saves the captures start.                       *)
(***************************************************************************)
\* initializeCamera on a platform whose checks and requests do not reject.
InitSteps ==
    \/ InitPermissionsChecked(osPerm.camera, osPerm.location)
    \/ \E cam \in RequestOutcomes(osPerm.camera) \ {"error"},
          loc \in RequestOutcomes(osPerm.location) \ {"error"} :
            InitPermissionsRequested(cam, loc)
    \/ InitWaited
    \/ \E b \in BOOLEAN : InitLocationEnabled(b)
    \/ InitLocationResolved
    \/ InitLocationRejected

CaptureSteps ==
    \/ PressShutter
    \/ ShutterResolved
    \/ ShutterRejected
    \/ PressGallery
    \/ PickResolved
    \/ PickRejected

NextCapture ==
    \/ AppCheckPermissions(osPerm.camera, osPerm.location)
    \/ OpenCamera
    \/ CloseCamera
    \/ InitSteps
    \/ \E w \in watches : WatchUpdate(w)
    \/ CaptureSteps
    \/ SaveSteps
    \/ Tick

SpecCapture == Init /\ [][NextCapture]_vars

\* The capture flow on a device that delivers no position: both grants are
\* given, isLocationEnabled() answers either way, getCurrentLocation()
\* rejects, and the watch stays silent.
NextNoLocation ==
    \/ AppCheckPermissions(osPerm.camera, osPerm.location)
    \/ OpenCamera
    \/ CloseCamera
    \/ InitPermissionsChecked(osPerm.camera, osPerm.location)
    \/ InitWaited
    \/ \E b \in BOOLEAN : InitLocationEnabled(b)
    \/ InitLocationRejected
    \/ CaptureSteps
    \/ SaveSteps
    \/ Tick

SpecNoLocation == InitGranted /\ [][NextNoLocation]_vars

\* CameraView mounting and unmounting where location is enabled or not, with
\* its watch delivering positions and errors; no photo is taken.
NextWatch ==
    \/ AppCheckPermissions(osPerm.camera, osPerm.location)
    \/ OpenCamera
    \/ CloseCamera
    \/ InitPermissionsChecked(osPerm.camera, osPerm.location)
    \/ InitWaited
    \/ \E b \in BOOLEAN : InitLocationEnabled(b)
    \/ InitLocationResolved
    \/ InitLocationRejected
    \/ \E w \in watches : WatchUpdate(w)
    \/ \E w \in watches : WatchError(w)
    \/ Tick

SpecWatch == InitGranted /\ [][NextWatch]_vars

\* Taking photos and closing the camera screen, in a place where location
\* is off.
NextClose ==
    \/ AppCheckPermissions(osPerm.camera, osPerm.location)
    \/ OpenCamera
    \/ CloseCamera
    \/ InitPermissionsChecked(osPerm.camera, osPerm.location)
    \/ InitWaited
    \/ InitLocationEnabled(FALSE)
    \/ PressShutter
    \/ ShutterResolved
    \/ ShutterRejected
    \/ SaveSteps

SpecClose == InitGranted /\ [][NextClose]_vars

\* Opening the camera screen and taking photos on a device whose back camera
\* may be found late, with both grants given, in a place where location is
\* off.
NextDevice ==
    \/ AppCheckPermissions(osPerm.camera, osPerm.location)
    \/ OpenCamera
    \/ CloseCamera
    \/ DeviceFound
    \/ InitPermissionsChecked(osPerm.camera, osPerm.location)
    \/ InitWaited
    \/ InitLocationEnabled(FALSE)
    \/ PressShutter
    \/ ShutterResolved
    \/ ShutterRejected
    \/ SaveSteps

InitDevice == InitAnyDevice /\ osPerm = [camera |-> "granted", location |-> "granted"]

SpecDevice == InitDevice /\ [][NextDevice]_vars

\* A capture attempt from the gallery screen to the save, through the camera
\* button that is never disabled: any grants, checks and requests that may
\* reject, a back camera that may be found late, location off.
NextStages ==
    \/ \E cam, loc \in PermissionStates \cup {"error"} : AppCheckPermissions(cam, loc)
    \/ OpenCameraUngated
    \/ CloseCamera
    \/ DeviceFound
    \/ \E cam, loc \in PermissionStates \cup {"error"} : InitPermissionsChecked(cam, loc)
    \/ \E cam, loc \in PermissionStates \cup {"error"} : InitPermissionsRequested(cam, loc)
    \/ InitWaited
    \/ InitLocationEnabled(FALSE)
    \/ CaptureSteps
    \/ SaveSteps

SpecStages == InitAnyDevice /\ [][NextStages]_vars

\* Taking photos on a device whose location platform may fail: with both
\* grants given, getCurrentLocation() resolves or rejects, and the watch
\* delivers positions or errors.
NextLocationErrors ==
    \/ AppCheckPermissions(osPerm.camera, osPerm.location)
    \/ OpenCamera
    \/ InitPermissionsChecked(osPerm.camera, osPerm.location)
    \/ InitWaited
    \/ \E b \in BOOLEAN : InitLocationEnabled(b)
    \/ InitLocationResolved
    \/ InitLocationRejected
    \/ \E w \in watches : WatchUpdate(w)
    \/ \E w \in watches : WatchError(w)
    \/ PressShutter
    \/ ShutterResolved
    \/ ShutterRejected
    \/ SaveSteps

SpecLocationErrors == InitGranted /\ [][NextLocationErrors]_vars

\* The App with the never-disabled camera button and the Request Permissions
\* button, on a platform whose checks and requests may reject, in a place
\* where location is off: the way into the camera screen, up to its controls.
NextPermissions ==
    \/ \E cam, loc \in PermissionStates \cup {"error"} : AppCheckPermissions(cam, loc)
    \/ \E cam, loc \in PermissionStates \cup {"error"} : RequestPermissions(cam, loc)
    \/ OpenCameraUngated
    \/ CloseCamera
    \/ \E cam, loc \in PermissionStates \cup {"error"} : InitPermissionsChecked(cam, loc)
    \/ \E cam, loc \in PermissionStates \cup {"error"} : InitPermissionsRequested(cam, loc)
    \/ InitWaited
    \/ InitLocationEnabled(FALSE)

SpecPermissions == Init /\ [][NextPermissions]_vars

\* The App whose camera button is disabled without appState.permissions.camera,
\* with a user who may grant in Settings, in a place where location is off.
NextSettings ==
    \/ AppCheckPermissions(osPerm.camera, osPerm.location)
    \/ \E c \in {"camera", "location"} : GrantInSettings(c)
    \/ OpenCamera
    \/ CloseCamera
    \/ InitSteps
    \/ InitWaited
    \/ InitLocationEnabled(FALSE)
    \/ CaptureSteps
    \/ SaveSteps
    \/ Tick

SpecSettings == Init /\ [][NextSettings]_vars

(***************************************************************************)
(* Properties of the store.                                                *)
(***************************************************************************)
MetadataFiles(fs) == {q \in DirEntries(fs) : q.json = 1}

ImageOf(metadataPath) == [metadataPath EXCEPT !.json = 0]

IsSortedDescending(s) == \A k \in 1..(Len(s) - 1) : s[k].timestamp >= s[k + 1].timestamp

SameRecords(s, t) ==
    /\ Len(s) = Len(t)
    /\ \A k \in 1..Len(s) : Occurrences(s, s[k]) = Occurrences(t, s[k])

\* C1: in every reachable state of the store, also between the file-system
\* steps of a save or a delete and after a crash there, no metadata artifact
\* <name>.json exists whose image artifact <name> is absent.
C1_NoMetadataWithoutImage ==
    \A q \in MetadataFiles(files) : Exists(files, ImageOf(q))

\* C2: at every point of a save, crashes included, if the metadata artifact of
\* the save's key exists then the image artifact of that key exists: the
\* bytes are written before the metadata.
C2_BytesBeforeMetadata ==
    \A i \in 1..Len(saves) :
        Exists(files, JsonOf(ImagePath(saves[i].filename)))
            => Exists(files, ImagePath(saves[i].filename))

\* C2's case: a save killed between its two writes has left an orphaned image.
C2_Witness ==
    \E i \in 1..Len(saves) :
        /\ saves[i].status = "killed"
        /\ Exists(files, ImagePath(saves[i].filename))
        /\ ~Exists(files, JsonOf(ImagePath(saves[i].filename)))

\* C4: whatever the store holds and in whatever order readDir gives it, a
\* list that has returned holds the records it read, ordered by timestamp
\* descending: of two adjacent records the first is not the older one.
C4_ListSortedDescending ==
    /\ IsSortedDescending(images)
    /\ list.pc = "done" =>
          /\ IsSortedDescending(list.result)
          /\ SameRecords(list.result, list.read)
          /\ images = list.result

\* C4's case: the list read an older record before a newer one and returned
\* the newer one first.
C4_Witness ==
    /\ list.pc = "done"
    /\ Len(list.read) = 2
    /\ list.read[1].timestamp < list.read[2].timestamp
    /\ images[1].timestamp > images[2].timestamp

\* C5: once the delete of a listed record r, made as the gallery and the
\* detail view make it (deleteImage(r.uri)), has completed, a list does not
\* return r.
C5_DeletedRecordNotListed ==
    (del.pc = "done" /\ del.record # Null)
        => Occurrences(LoadSavedImagesOn(files), del.record) = 0

\* The outcome of the last deleteImage call, as its caller sees it.
DeleteOutcome ==
    CASE del.pc = "done" -> "ok"
      [] del.pc = "failed" -> "error"
      [] OTHER -> "pending"

\* C6: a delete that has settled has failed with NotFound exactly when
\* neither the image artifact nor the metadata artifact existed at the call.
C6_NotFoundIffNeitherExisted ==
    DeleteOutcome # "pending" => (DeleteOutcome = "NotFound" <=> ~del.existed)

(***************************************************************************)
(* Properties of saves seen through the list.                              *)
(***************************************************************************)
Listed(fs) == LoadSavedImagesOn(fs)

\* C3: with no delete in between, a list made after a successful save holds
\* the saved record exactly once, and holds no record with a later timestamp
\* after it.
C3_SavedRecordListedOnce ==
    \A r \in kept :
        /\ Occurrences(Listed(files), r) = 1
        /\ \A j, k \in 1..Len(Listed(files)) :
              (Listed(files)[j] = r /\ j < k) => Listed(files)[k].timestamp <= r.timestamp

\* C7: two captures saved in the same millisecond get two distinct file
\* names, and once both saves have completed the list holds one record for
\* each of them.
C7_SameMillisecondDistinctKeys ==
    \A i, j \in 1..Len(saves) :
        (i < j /\ saves[i].calledAt = saves[j].calledAt) =>
            /\ saves[i].filename # saves[j].filename
            /\ (saves[i].status = "done" /\ saves[j].status = "done") =>
                  /\ Occurrences(Listed(files), RecordOf(saves[i])) = 1
                  /\ Occurrences(Listed(files), RecordOf(saves[j])) = 1

(***************************************************************************)
(* Properties of the capture flow.                                         *)
(***************************************************************************)
\* The capture attempts between the press of a button and the settling of
\* the save: the shutter call, the picker, and the saves in flight.
AttemptsInFlight ==
    (IF shot.pc = "takePhoto" THEN 1 ELSE 0)
    + (IF pick.pc = "pickImageFromGallery" THEN 1 ELSE 0)
    + Cardinality({i \in 1..Len(saves) : Running(saves[i])})

\* C8: while one capture attempt is between its shutter press and the
\* settling of its save, a second request starts no shutter call, no picker
\* and no save: at most one attempt is in flight.
C8_OneAttemptInFlight == AttemptsInFlight <= 1

\* A position delivered at most FreshnessWindow milliseconds before t.
IsFresh(loc, t) == loc # Null /\ t - loc.timestamp <= FreshnessWindow

\* C9: a save whose image was tagged while the watch's last delivered
\* position was fresh stores that position.
C9_FreshWatchPositionStored ==
    \A i \in 1..Len(saves) :
        IsFresh(saves[i].watched, saves[i].calledAt)
            => saves[i].image.location = saves[i].watched

\* The list of fs holds the record of save s, and holds it without a position.
ListedWithoutPosition(fs, s) ==
    \E k \in 1..Len(Listed(fs)) :
        /\ Listed(fs)[k].uri = s.image.uri
        /\ Listed(fs)[k].timestamp = s.image.timestamp
        /\ Field(Listed(fs)[k], "location") = Undefined

\* The step hands an image of a run that held no position to a new save.
Untagged(run) ==
    /\ run.pc # "idle"
    /\ run'.pc = "idle"
    /\ run.location = Null
    /\ Len(saves') = Len(saves) + 1

\* C10: without a position (location services off, or getCurrentLocation
\* rejected, and no watch update) the capture goes through: initialization
\* ends with the controls shown, the shutter and the picker start a save of
\* an image without location, and when that save completes the image is
\* listed with its position absent and the gallery is shown.
C10_DoneWithoutPosition ==
    [][/\ (/\ init.live
           /\ init.pc \in {"isLocationEnabled", "getCurrentLocation"}
           /\ init'.pc = "idle"
           /\ view'.mounted
           /\ view'.currentLocation = Null) => ControlsShown'
       /\ (Untagged(shot) \/ Untagged(pick)) =>
              /\ Running(saves'[Len(saves')])
              /\ saves'[Len(saves')].image.location = Undefined
       /\ \A i \in 1..Len(saves) :
              (/\ Running(saves[i])
               /\ saves'[i].status = "done"
               /\ saves[i].image.location = Undefined) =>
                  /\ ListedWithoutPosition(files', saves[i])
                  /\ screen' = "gallery"]_vars

\* C10's case: no position was ever delivered, and a capture is done: its
\* image is listed without a position.
C10_Witness ==
    /\ fixes = 0
    /\ screen = "gallery"
    /\ \E i \in 1..Len(saves) :
          /\ saves[i].status = "done"
          /\ saves[i].image.location = Undefined
          /\ ListedWithoutPosition(files, saves[i])

\* C11: a capture attempt (initializeCamera) made while the camera permission
\* is denied and the location permission is granted issues no request for the
\* location permission.
C11_NoLocationRequestWhenCameraDenied ==
    (permCalls.op = "checkAllPermissions"
        /\ permCalls.by = "CameraView"
        /\ permCalls.at = [camera |-> "denied", location |-> "granted"])
    => \A i \in 1..Len(permCalls.calls) :
           permCalls.calls[i] # [call |-> "request", permission |-> "location"]

\* C12: at most one platform location watch is registered at any time, and it
\* is the one whose id LocationService holds in watchId.
C12_AtMostOneWatch ==
    /\ Cardinality(watches) <= 1
    /\ \A w \in watches : watchId = [id |-> w.id]

\* C13: while CameraView is not on screen, no platform location watch is
\* registered.
C13_NoWatchAfterClose == ~view.mounted => watches = {}

\* C14: stopWatchingLocation called while no watch is recorded hands nothing
\* to clearWatch and changes nothing; and a second call right after any call
\* hands nothing to clearWatch and leaves what the first call left.
C14_StopIsIdempotent ==
    lastStop # NoStop =>
        LET once == lastStop.after
            twice == StopWatchingLocation([watchId |-> once.watchId, watches |-> once.watches])
        IN  /\ lastStop.before.watchId = Null =>
                /\ once.cleared = <<>>
                /\ once.watchId = Null
                /\ once.watches = lastStop.before.watches
            /\ twice.cleared = <<>>
            /\ twice.watchId = once.watchId
            /\ twice.watches = once.watches

\* stopWatchingLocation has been called with no watch recorded and has handed
\* nothing to clearWatch, after an earlier mount had obtained a position and
\* its unmount had stopped the watch.
C14_Witness ==
    /\ lastStop # NoStop
    /\ lastStop.before.watchId = Null
    /\ lastStop.after.cleared = <<>>
    /\ fixes > 0

\* C15: after a failed save the store holds no image under the key of that
\* save that is left without a metadata record.
C15_FailedSaveLeavesNoImage ==
    \A i \in 1..Len(saves) :
        (saves[i].status = "failed" /\ Exists(files, ImagePath(saves[i].filename)))
        => Exists(files, JsonOf(ImagePath(saves[i].filename)))

\* C16: each turn of the loop of loadSavedImages goes on to the next file
\* without failing the call: a file that cannot be read or parsed adds
\* nothing, a file that is read and parsed adds its record, the records read
\* before are kept, and after the last file the call returns them sorted.
C16_UnparsableRecordSkipped ==
    [][(list.pc = "readFile" /\ list' # list) =>
        LET f == list.imageFiles[list.next]
        IN  /\ list'.pc \in {"readFile", "done"}
            /\ list'.next = list.next + 1
            /\ \/ list'.read = list.read
               \/ /\ Exists(files, f)
                  /\ CanParse(files[f])
                  /\ list'.read = list.read \o <<JSONParse(files[f])>>
            /\ (Exists(files, f) /\ ~CanParse(files[f])) => list'.read = list.read
            /\ list'.pc = "done" => list'.result = SortImages(list'.read)]_vars

\* A list of two metadata files, one of which does not parse, has returned
\* the one record of the other.
C16_Witness ==
    /\ list.pc = "done"
    /\ Len(list.imageFiles) = 2
    /\ Len(list.result) = 1
    /\ \E k \in 1..2 : Exists(files, list.imageFiles[k]) /\ ~CanParse(files[list.imageFiles[k]])
    /\ \E k \in 1..2 : Exists(files, list.imageFiles[k]) /\ CanParse(files[list.imageFiles[k]])
           /\ list.result[1] = JSONParse(files[list.imageFiles[k]])

\* C17: arePermissionsGranted makes only check calls, never a request, and
\* always returns an answer: each field is true when the check of its
\* permission answered granted, and false when it answered anything else or
\* rejected.
C17_ProbeNeverPromptsNorThrows ==
    permCalls.op = "arePermissionsGranted" =>
        /\ \A i \in 1..Len(permCalls.calls) : permCalls.calls[i].call = "check"
        /\ permCalls.result \in [camera : BOOLEAN, location : BOOLEAN]
        /\ \A c \in {"camera", "location"} :
               /\ permCalls.outcomes[c] = "error" => ~permCalls.result[c]
               /\ permCalls.result[c] <=> permCalls.outcomes[c] = "granted"

\* arePermissionsGranted has answered while the check of the camera
\* permission rejected and the location permission was granted.
C17_Witness ==
    /\ permCalls.op = "arePermissionsGranted"
    /\ permCalls.outcomes = [camera |-> "error", location |-> "granted"]
    /\ permCalls.result = [camera |-> FALSE, location |-> TRUE]

\* C18: checkAllPermissions requests the location permission whatever the
\* camera request answered, and returns both answers together, each field
\* true exactly when the request of its own permission answered granted.
C18_BothRequestsEvaluated ==
    permCalls.op = "checkAllPermissions" =>
        /\ \E i \in 1..Len(permCalls.calls) :
               permCalls.calls[i] = [call |-> "request", permission |-> "camera"]
        /\ \E i \in 1..Len(permCalls.calls) :
               permCalls.calls[i] = [call |-> "request", permission |-> "location"]
        /\ permCalls.result \in [camera : BOOLEAN, location : BOOLEAN]
        /\ \A c \in {"camera", "location"} :
               permCalls.result[c] <=> permCalls.outcomes[c] = "granted"

\* checkAllPermissions has answered location granted although the camera
\* request was denied, blocked or rejected.
C18_Witness ==
    /\ permCalls.op = "checkAllPermissions"
    /\ permCalls.outcomes.camera \in {"denied", "blocked", "error"}
    /\ permCalls.outcomes.location = "granted"
    /\ permCalls.result = [camera |-> FALSE, location |-> TRUE]

\* C19: whenever App shows the gallery, its camera button follows the grant
\* the operating system holds: with the camera permission granted, the button
\* is enabled.
C19_ButtonFollowsGrant ==
    (app.pc = "ready" /\ screen = "gallery" /\ osPerm.camera = "granted")
    => app.permissions.camera

\* C20: a location error does not abort the capture.  When getCurrentLocation
\* rejects in the mounted view, the camera screen stays and its controls are
\* shown, with the position it had; when the watch reports an error, the view
\* and every run are left as they are; and an image handed to the save
\* carries the position its run held, or none.
C20_LocationErrorsDoNotAbort ==
    [][/\ (init.pc = "getCurrentLocation" /\ init' = NoRun /\ fixes' = fixes
              /\ init.live /\ view.mounted)
          => /\ screen' = "camera"
             /\ ControlsShown'
             /\ view'.currentLocation = view.currentLocation
       /\ watchErrors' # watchErrors
          => /\ view' = view
             /\ UNCHANGED <<screen, init, shot, pick, saves, watches, watchId, lastWatch>>
       /\ Len(saves') > Len(saves)
          => saves'[Len(saves')].image.location \in
                 {Undefined} \cup ({shot.location, pick.location} \ {Null})]_vars

\* After getCurrentLocation has rejected and the watch has reported an error,
\* the shutter was pressed and the image is being saved with no position.
C20_Witness ==
    /\ watchErrors > 0
    /\ view.mounted
    /\ view.isLocationEnabled
    /\ view.currentLocation = Null
    /\ fixes = 0
    /\ \E i \in 1..Len(saves) :
           /\ saves[i].status = "running"
           /\ saves[i].image.location = Undefined

\* C21: a delete called while exactly one of the two artifacts exists does not
\* fail over the missing one (an unlink that rejects was given a file that
\* exists), and when it completes neither artifact exists.
C21_EachRemovalIdempotent ==
    [][(del.hadImage # del.hadMetadata) =>
        /\ (del.pc = "unlinkImage" /\ del'.pc = "failed")
               => Exists(files, del.imagePath)
        /\ (del.pc = "unlinkMetadata" /\ del'.pc = "failed")
               => Exists(files, JsonOf(del.imagePath))
        /\ (del.pc # "done" /\ del'.pc = "done")
               => /\ ~Exists(files', del.imagePath)
                  /\ ~Exists(files', JsonOf(del.imagePath))]_vars

\* A delete called while only the metadata artifact existed has completed,
\* and neither artifact exists.
C21_Witness ==
    /\ del.pc = "done"
    /\ del.hadMetadata
    /\ ~del.hadImage
    /\ ~Exists(files, del.imagePath)
    /\ ~Exists(files, JsonOf(del.imagePath))

\* The fields of ImageMetadata as the camera view hands it to the save.
CapturedImageFields == {"uri", "width", "height", "fileSize", "timestamp", "location"}

\* Whether record r, as a list returns it, is the round trip of save s.
RoundTrip(r, s) ==
    /\ \A k \in CapturedImageFields : Field(r, k) = s.image[k]
    /\ Field(r, "path") = ImagePath(s.filename)
    /\ Field(r, "savedAt") \in s.calledAt..MaxTime

\* C22: when a save completes, the metadata artifact is the file named as the
\* image artifact plus .json, and a list of the store returns the record of
\* that artifact with every field of the captured image unchanged, plus the
\* storage path and the time of the save.
C22_SaveListRoundTrip ==
    [][\A i \in 1..Len(saves) :
        (Running(saves[i]) /\ saves'[i].status = "done") =>
            LET s == saves'[i]
                f == JsonOf(ImagePath(s.filename))
            IN  /\ Exists(files', ImagePath(s.filename))
                /\ Exists(files', f)
                /\ CanParse(files'[f])
                /\ RoundTrip(JSONParse(files'[f]), s)
                /\ Occurrences(Listed(files'), JSONParse(files'[f])) = 1]_vars

\* A list has returned the record of a completed save of an image with a
\* position, saved after the clock had moved on from the capture.
C22_Witness ==
    /\ list.pc = "done"
    /\ Len(list.result) = 1
    /\ \E i \in 1..Len(saves) :
           /\ saves[i].status = "done"
           /\ saves[i].image.location # Undefined
           /\ RoundTrip(list.result[1], saves[i])
           /\ list.result[1].savedAt > saves[i].image.timestamp

\* C23: the unmount of CameraView leaves every save in flight in flight (or
\* completes it, when the unmount is the return of that save); while
\* CameraView is closed the pending file-system call of a save in flight can
\* still resolve; and a save that completes while CameraView is closed has
\* written both artifacts.
C23_CloseDoesNotCancelSave ==
    [][\A i \in 1..Len(saves) :
        saves[i].status = "running" =>
            /\ (view.mounted /\ ~view'.mounted)
                   => /\ saves'[i].status \in {"running", "done"}
                      /\ saves'[i].step >= saves[i].step
            /\ (~view.mounted /\ CanSucceed(files, saves[i]))
                   => ENABLED SaveFsDone(i)
            /\ (~view.mounted /\ saves'[i].status = "done")
                   => /\ Exists(files', ImagePath(saves[i].filename))
                      /\ Exists(files', JsonOf(ImagePath(saves[i].filename)))]_vars

\* CameraView is closed, and a save that was in flight has had its byte copy
\* resolve and is awaiting the metadata write.
C23_Witness ==
    /\ ~view.mounted
    /\ screen = "gallery"
    /\ \E i \in 1..Len(saves) :
           /\ saves[i].status = "running"
           /\ PendingCall(saves[i]) = "writeFile"

\* C25: the device check after the one-second wait reads the camera device
\* that exists when it runs: while a mounted view's initialization waits, the
\* device it will test is the device useCameraDevices() has, so that it closes
\* with 'No camera device found' exactly when there is none.
C25_DeviceCheckIsCurrent ==
    (init.pc = "wait" /\ init.live /\ view.mounted) => (init.device <=> device)

\* C24: the shutter is invoked only when the last call of PermissionService,
\* made by the camera view, returned both permissions granted, a camera device
\* is present, and initializeCamera has completed; and a save is started only
\* by the step in which a shutter call or a gallery pick delivers its image.
C24_StagesInOrder ==
    [][/\ (shot.pc # "takePhoto" /\ shot'.pc = "takePhoto")
          => /\ permCalls.by = "CameraView"
             /\ permCalls.result = [camera |-> TRUE, location |-> TRUE]
             /\ view.hasPermission
             /\ device
             /\ view.cameraInitialized
             /\ init = NoRun
       /\ Len(saves') > Len(saves)
          => \/ shot.pc = "takePhoto" /\ shot' = NoRun
             \/ pick.pc = "pickImageFromGallery" /\ pick' = NoRun]_vars

\* The shutter has been invoked after the camera view had to request the
\* permissions and the user granted them at the prompt.
C24_Witness ==
    /\ shot.pc = "takePhoto"
    /\ permCalls.op = "checkAllPermissions"
    /\ permCalls.at.camera = "denied"
    /\ permCalls.result = [camera |-> TRUE, location |-> TRUE]

\* C26: the position attached to an image is fresh at the instant the capture
\* completes: an image handed to the save carries no position that was
\* observed more than FreshnessWindow milliseconds before.
C26_AttachedPositionIsFresh ==
    \A i \in 1..Len(saves) :
        saves[i].image.location # Undefined
            => saves[i].calledAt - saves[i].image.location.timestamp <= FreshnessWindow

\* C27: checkAllPermissions makes a platform request only for a permission
\* that was not granted when the call started.
C27_RequestsOnlyMissing ==
    permCalls.op = "checkAllPermissions" =>
        \A i \in 1..Len(permCalls.calls) :
            permCalls.calls[i].call = "request"
                => permCalls.at[permCalls.calls[i].permission] # "granted"

Resolved(s, call) ==
    \E k \in 1..Len(SaveFsCalls) : k < s.step /\ SaveFsCalls[k] = call

\* The saves that threw because their copyFile rejected.
CopyFailed == {i \in 1..Len(saves) : saves[i].status = "failed" /\ PendingCall(saves[i]) = "copyFile"}

\* C29: a save whose byte copy has failed has raised an error and has put
\* nothing in the store: an image or a metadata artifact under its key is
\* there only if another save of the same key wrote it, and a list returns a
\* record of that key only if it is the record of such another save.
C29_FailedCopyLeavesStoreUnchanged ==
    \A i \in CopyFailed :
        LET key == ImagePath(saves[i].filename)
            others == {j \in 1..Len(saves) : j # i /\ saves[j].filename = saves[i].filename}
        IN /\ ~Resolved(saves[i], "writeFile")
           /\ Exists(files, key) => \E j \in others : Resolved(saves[j], "copyFile")
           /\ Exists(files, JsonOf(key)) => \E j \in others : Resolved(saves[j], "writeFile")
           /\ \A k \in 1..Len(Listed(files)) :
                  Field(Listed(files)[k], "path") = key
                      => \E j \in others : /\ Resolved(saves[j], "writeFile")
                                           /\ Listed(files)[k] = RecordOf(saves[j])

\* A save has failed at its copy while the store holds the record of another.
C29_Witness ==
    /\ CopyFailed # {}
    /\ Len(Listed(files)) > 0
    /\ \E i \in CopyFailed : \E j \in 1..Len(saves) :
           saves[j].status = "done" /\ saves[j].filename # saves[i].filename
\* The metadata artifacts of fs that parse: the files of the documents
\* directory whose name ends in .json, does not contain .json.json, and whose
\* text is JSON.
ParsableMetadata(fs) ==
    {q \in DirEntries(fs) : EndsWithJson(q) /\ ~IncludesJsonJson(q) /\ CanParse(fs[q])}

\* The image artifacts of fs that have no metadata artifact.
OrphanImages(fs) == {q \in DirEntries(fs) : q.json = 0 /\ ~Exists(fs, JsonOf(q))}

\* C30: what a list returns comes from metadata artifacts only: every entry
\* is the parse of a parsable metadata artifact (name ending in .json and not
\* containing .json.json), each such artifact has exactly one entry, and no
\* entry is for an orphaned image.
C30_ListEnumeratesMetadataOnly ==
    list.pc = "done" =>
        /\ \A k \in 1..Len(list.result) :
               \E q \in ParsableMetadata(files) : list.result[k] = JSONParse(files[q])
        /\ \A q \in ParsableMetadata(files) :
               Occurrences(list.result, JSONParse(files[q])) = 1
        /\ \A q \in OrphanImages(files) : \A k \in 1..Len(list.result) :
               Field(list.result[k], "path") # q

\* A list has returned one record from a directory that also holds an
\* orphaned image and a record under a .json.json name.
C30_Witness ==
    /\ list.pc = "done"
    /\ Len(list.result) = 1
    /\ OrphanImages(files) # {}
    /\ \E q \in DirEntries(files) : IncludesJsonJson(q) /\ CanParse(files[q])
====
